---- MODULE Spec2Model ----
(***************************************************************************)
(* A model of server/analysis/pose_analyzer.py (class WorkoutAnalyzer):    *)
(* the top-level analyze_video state machine and the pure stages it calls  *)
(* (movement metrics, classifier, repetition counter, form analyzer).      *)
(*                                                                         *)
(* Units.  Landmark coordinates are integers in hundredths (0.5 is 50).    *)
(* Angles are integer degrees.  A per-frame mean of two values is kept     *)
(* doubled (l + r instead of (l + r) / 2) and a smoothed series is kept    *)
(* multiplied by the filter's common denominator, so every comparison of   *)
(* the source is an exact integer comparison after cross-multiplication.   *)
(* Scores are integers in hundredths of a point (10.0 is 1000).            *)
(* The source computes in binary floating point; the model computes the    *)
(* same expressions over the rationals.                                    *)
(***************************************************************************)
EXTENDS Integers, Sequences, FiniteSets, TLC

(***************************************************************************)
(* Bounds of the model (inputs only).                                      *)
(***************************************************************************)
\* most undetected (None) frames at the head of a video
MaxFormFrames == 20
MaxRepFrames == 30
MinRepRun == 3
MaxCoord == 2
MaxNone == 8
\* most detected frames of a video
MaxValid == 32
\* shortest and longest run of one pose in a periodic video
MinRun == 5
MaxRun == 7

(***************************************************************************)
(* Program constants.                                                      *)
(***************************************************************************)
\* analyze_video: fewer valid frames than this is "too short"
MinValidFrames == 30
\* count_*_reps: fewer angle samples than this gives 0
MinRepFrames == 10
\* a LandmarkFrame of the pose estimator carries 33 landmarks
FullLandmarks == 33

(***************************************************************************)
(* Small helpers.                                                          *)
(***************************************************************************)
Abs(x) == IF x < 0 THEN -x ELSE x
Min2(x, y) == IF x < y THEN x ELSE y
Max2(x, y) == IF x > y THEN x ELSE y
SeqMax(s) == CHOOSE m \in {s[i] : i \in 1..Len(s)} : \A i \in 1..Len(s) : s[i] <= m
SeqMin(s) == CHOOSE m \in {s[i] : i \in 1..Len(s)} : \A i \in 1..Len(s) : s[i] >= m

(***************************************************************************)
(* The pose alphabet: the landmark coordinates a detected frame may carry. *)
(* Each pose gives <<x, y>> (hundredths, y grows downwards) of the         *)
(* landmarks the analyzer reads: nose 0, shoulders 11/12, elbows 13/14,    *)
(* wrists 15/16, hips 23/24, knees 25/26, ankles 27/28.  Every joint of    *)
(* every pose bends by a multiple of 45 degrees, the angles that are exact *)
(* on an integer grid.                                                     *)
(***************************************************************************)
Body(nose, sh, el, wr, hip, lkn, lan, rkn, ran) ==
    [i \in {0, 11, 12, 13, 14, 15, 16, 23, 24, 25, 26, 27, 28} |->
        CASE i = 0 -> nose
          [] i \in {11, 12} -> sh
          [] i \in {13, 14} -> el
          [] i \in {15, 16} -> wr
          [] i \in {23, 24} -> hip
          [] i = 25 -> lkn
          [] i = 27 -> lan
          [] i = 26 -> rkn
          [] i = 28 -> ran]

PoseTable ==
    [Stand      |-> Body(<<50, 20>>, <<50, 30>>, <<50, 40>>, <<50, 50>>, <<50, 50>>,
                         <<50, 70>>, <<50, 90>>, <<50, 70>>, <<50, 90>>),
     Squat      |-> Body(<<30, 40>>, <<30, 50>>, <<30, 60>>, <<30, 70>>, <<30, 90>>,
                         <<50, 90>>, <<50, 110>>, <<50, 90>>, <<50, 110>>),
     SquatLean  |-> Body(<<60, 60>>, <<50, 70>>, <<50, 80>>, <<50, 90>>, <<30, 90>>,
                         <<50, 90>>, <<50, 110>>, <<50, 90>>, <<50, 110>>),
     SquatFwd   |-> Body(<<40, 30>>, <<40, 40>>, <<40, 50>>, <<40, 60>>, <<40, 80>>,
                         <<60, 80>>, <<50, 90>>, <<60, 80>>, <<50, 90>>),
     SquatCave  |-> Body(<<50, 20>>, <<50, 30>>, <<50, 40>>, <<50, 50>>, <<50, 50>>,
                         <<40, 60>>, <<50, 70>>, <<40, 60>>, <<50, 70>>),
     PlankUp    |-> Body(<<25, 60>>, <<30, 60>>, <<30, 75>>, <<30, 90>>, <<50, 65>>,
                         <<65, 70>>, <<80, 75>>, <<65, 70>>, <<80, 75>>),
     PlankDown  |-> Body(<<25, 80>>, <<30, 80>>, <<20, 90>>, <<30, 90>>, <<50, 80>>,
                         <<65, 80>>, <<80, 80>>, <<65, 80>>, <<80, 80>>),
     PlankSag   |-> Body(<<25, 60>>, <<30, 60>>, <<30, 75>>, <<30, 90>>, <<50, 80>>,
                         <<65, 75>>, <<80, 70>>, <<65, 75>>, <<80, 70>>),
     PlankPike  |-> Body(<<25, 80>>, <<30, 80>>, <<20, 90>>, <<30, 90>>, <<50, 60>>,
                         <<60, 70>>, <<70, 80>>, <<60, 70>>, <<70, 80>>),
     PlankHead  |-> Body(<<25, 90>>, <<30, 80>>, <<20, 90>>, <<30, 90>>, <<50, 80>>,
                         <<65, 80>>, <<80, 80>>, <<65, 80>>, <<80, 80>>),
     LungeDown  |-> Body(<<50, 30>>, <<50, 40>>, <<50, 50>>, <<50, 60>>, <<50, 60>>,
                         <<70, 60>>, <<70, 80>>, <<40, 70>>, <<30, 80>>),
     SquatCaveLean |-> Body(<<70, 40>>, <<70, 50>>, <<70, 60>>, <<70, 70>>, <<50, 50>>,
                         <<40, 60>>, <<50, 70>>, <<40, 60>>, <<50, 70>>),
     SquatFwdLean  |-> Body(<<60, 70>>, <<60, 80>>, <<60, 90>>, <<60, 100>>, <<40, 80>>,
                         <<60, 100>>, <<40, 100>>, <<60, 100>>, <<40, 100>>),
     PlankSagHead  |-> Body(<<25, 70>>, <<30, 60>>, <<30, 75>>, <<30, 90>>, <<50, 80>>,
                         <<65, 75>>, <<80, 70>>, <<65, 75>>, <<80, 70>>),
     PlankPikeHead |-> Body(<<25, 90>>, <<30, 80>>, <<20, 90>>, <<30, 90>>, <<50, 60>>,
                         <<60, 70>>, <<70, 80>>, <<60, 70>>, <<70, 80>>)]

Poses == DOMAIN PoseTable

\* The landmark counts a detected frame may carry: the full 33, or a
\* truncated list (indices 25.. or 16.. missing).
LandmarkCounts == {FullLandmarks, 25, 16}

\* results.pose_landmarks.landmark of a frame with a pose, and the None
\* appended for a frame without one.
PoseFrame(p, n) == [detected |-> TRUE, n |-> n, pose |-> p]
NoneFrame == [detected |-> FALSE, n |-> 0, pose |-> "none"]

\* `if landmarks:` - a non-empty landmark list
Truthy(f) == f.n > 0
\* landmarks[i].x, landmarks[i].y
X(f, i) == PoseTable[f.pose][i][1]
Y(f, i) == PoseTable[f.pose][i][2]

\* landmarks[i] raises IndexError in some frame of the loop: the frame is
\* truthy and carries fewer than i + 1 landmarks.
Raises(seq, idxs) ==
    \E k \in 1..Len(seq) : Truthy(seq[k]) /\ \E i \in idxs : i >= seq[k].n

(***************************************************************************)
(* calculate_angle: the angle at b between the rays b->a and b->c, in      *)
(* degrees.  cos = dot / (|ba| |bc|); a zero-length ray makes the quotient *)
(* 0/0, which numpy evaluates to nan without raising.  The arccos is       *)
(* evaluated exactly where it is a multiple of 45 degrees (cos^2 is 1,     *)
(* 1/2 or 0); the pose alphabet stays inside that domain.                  *)
(***************************************************************************)
NaN == "nan"

calculate_angle(a, b, c) ==
    LET bax == a[1] - b[1]
        bay == a[2] - b[2]
        bcx == c[1] - b[1]
        bcy == c[2] - b[2]
        dot == bax * bcx + bay * bcy
        n2  == (bax * bax + bay * bay) * (bcx * bcx + bcy * bcy)
    IN  IF n2 = 0 THEN NaN
        ELSE CASE dot > 0 /\ dot * dot = n2     -> 0
               [] dot > 0 /\ 2 * dot * dot = n2 -> 45
               [] dot = 0                       -> 90
               [] dot < 0 /\ 2 * dot * dot = n2 -> 135
               [] dot < 0 /\ dot * dot = n2     -> 180

Pt(f, i) == <<X(f, i), Y(f, i)>>
\* the four joint angles the analyzer derives from a frame
LeftKnee(f)   == calculate_angle(Pt(f, 23), Pt(f, 25), Pt(f, 27))
RightKnee(f)  == calculate_angle(Pt(f, 24), Pt(f, 26), Pt(f, 28))
LeftElbow(f)  == calculate_angle(Pt(f, 11), Pt(f, 13), Pt(f, 15))
RightElbow(f) == calculate_angle(Pt(f, 12), Pt(f, 14), Pt(f, 16))

(***************************************************************************)
(* smooth_data: scipy.signal.savgol_filter(data, window_length, 3) in its  *)
(* default mode "interp".  An interior sample is the value at the window's *)
(* centre of the least-squares cubic through the window; the first and the *)
(* last window_length \div 2 samples are the values of the cubic fitted to *)
(* the first (last) window_length samples.  SG5 and SG7 are the rows of    *)
(* that fit for windows 5 and 7, over the common denominators 70 and 42.   *)
(* The result is [vals, scale]: the series multiplied by scale (1 when the *)
(* data is shorter than the window and is returned unchanged).             *)
(***************************************************************************)
SG5 == << <<69, 4, -6, 4, -1>>,
          <<4, 54, 24, -16, 4>>,
          <<-6, 24, 34, 24, -6>>,
          <<4, -16, 24, 54, 4>>,
          <<-1, 4, -6, 4, 69>> >>

SG7 == << <<39, 8, -4, -4, 1, 4, -2>>,
          <<8, 19, 16, 6, -4, -7, 4>>,
          <<-4, 16, 19, 12, 2, -4, 1>>,
          <<-4, 6, 12, 14, 12, 6, -4>>,
          <<1, -4, 2, 12, 19, 16, -4>>,
          <<4, -7, -4, 6, 16, 19, 8>>,
          <<-2, 4, 1, -4, -4, 8, 39>> >>

RECURSIVE DotFrom(_, _, _, _)
\* row[1] * data[off + 1] + ... + row[k] * data[off + k]
DotFrom(row, data, off, k) ==
    IF k = 0 THEN 0 ELSE row[k] * data[off + k] + DotFrom(row, data, off, k - 1)

savgol_filter(data, w) ==
    LET n == Len(data)
        h == w \div 2
        M == IF w = 5 THEN SG5 ELSE SG7
    IN  [i \in 1..n |->
            IF i <= h THEN DotFrom(M[i], data, 0, w)
            ELSE IF i > n - h THEN DotFrom(M[w - (n - i)], data, n - w, w)
            ELSE DotFrom(M[h + 1], data, i - h - 1, w)]

smooth_data(data, window_length) ==
    IF Len(data) < window_length THEN [vals |-> data, scale |-> 1]
    ELSE LET w == IF window_length % 2 = 0 THEN window_length - 1 ELSE window_length
         IN  CASE w = 5 -> [vals |-> savgol_filter(data, 5), scale |-> 70]
               [] w = 7 -> [vals |-> savgol_filter(data, 7), scale |-> 42]

Range(s) == SeqMax(s) - SeqMin(s)

(***************************************************************************)
(* Movement metrics.  A metric is a fraction [num, den]; a helper whose    *)
(* loop raises returns its except-value (0 or False).                      *)
(***************************************************************************)
Zero == [num |-> 0, den |-> 1]
\* metric > tn / td
Gt(m, tn, td) == m.num * td > tn * m.den

\* the frames a helper's loop looks at, and one derived value per frame
Seen(seq) == SelectSeq(seq, Truthy)

HipY2(f)      == Y(f, 23) + Y(f, 24)
ShoulderY2(f) == Y(f, 11) + Y(f, 12)
AnkleY2(f)    == Y(f, 27) + Y(f, 28)
KneeY2(f)     == Y(f, 25) + Y(f, 26)
AvgKnee2(f)   == LeftKnee(f) + RightKnee(f)
AvgElbow2(f)  == LeftElbow(f) + RightElbow(f)

\* the per-frame series the helpers collect from the frames they look at
HipSignal(seq)       == [k \in 1..Len(Seen(seq)) |-> HipY2(Seen(seq)[k])]
ShoulderSignal(seq)  == [k \in 1..Len(Seen(seq)) |-> ShoulderY2(Seen(seq)[k])]
KneeSignal(seq)      == [k \in 1..Len(Seen(seq)) |-> AvgKnee2(Seen(seq)[k])]
LeftKneeSignal(seq)  == [k \in 1..Len(Seen(seq)) |-> LeftKnee(Seen(seq)[k])]
RightKneeSignal(seq) == [k \in 1..Len(Seen(seq)) |-> RightKnee(Seen(seq)[k])]
ElbowSignal(seq)     == [k \in 1..Len(Seen(seq)) |-> LeftElbow(Seen(seq)[k])]
AvgElbowSignal(seq)  == [k \in 1..Len(Seen(seq)) |-> AvgElbow2(Seen(seq)[k])]

analyze_elbow_movement(seq) ==
    IF Raises(seq, {11, 13, 15}) THEN Zero
    ELSE LET elbow_angles == ElbowSignal(seq)
         IN  IF Len(elbow_angles) < 2 THEN Zero
             ELSE LET sm == smooth_data(elbow_angles, 5)
                  IN  [num |-> Range(sm.vals), den |-> 180 * sm.scale]

check_horizontal_body_position(seq) ==
    IF Raises(seq, {11, 12, 23, 24}) \/ Len(seq) = 0 THEN FALSE
    ELSE LET horizontal_frames ==
                 Cardinality({k \in 1..Len(seq) :
                     Truthy(seq[k]) /\ Abs(ShoulderY2(seq[k]) - HipY2(seq[k])) < 30})
         IN  10 * horizontal_frames > 6 * Len(seq)

detect_asymmetric_leg_movement(seq) ==
    IF Raises(seq, {23, 24, 25, 26, 27, 28}) THEN FALSE
    ELSE LET left_knee_angles == LeftKneeSignal(seq)
             right_knee_angles == RightKneeSignal(seq)
         IN  IF Len(left_knee_angles) < 2 THEN FALSE
             ELSE Abs(Range(left_knee_angles) - Range(right_knee_angles)) > 30

analyze_hip_movement(seq) ==
    IF Raises(seq, {23, 24}) THEN Zero
    ELSE LET hip_positions == HipSignal(seq)
         IN  IF Len(hip_positions) < 2 THEN Zero
             ELSE LET sm == smooth_data(hip_positions, 5)
                  IN  [num |-> Range(sm.vals), den |-> 200 * sm.scale]

analyze_knee_movement(seq) ==
    IF Raises(seq, {23, 24, 25, 26, 27, 28}) THEN Zero
    ELSE LET knee_angles == KneeSignal(seq)
         IN  IF Len(knee_angles) < 2 THEN Zero
             ELSE LET sm == smooth_data(knee_angles, 5)
                  IN  [num |-> Range(sm.vals), den |-> 2 * 180 * sm.scale]

analyze_shoulder_movement(seq) ==
    IF Raises(seq, {11, 12}) THEN Zero
    ELSE LET shoulder_positions == ShoulderSignal(seq)
         IN  IF Len(shoulder_positions) < 2 THEN Zero
             ELSE LET sm == smooth_data(shoulder_positions, 5)
                  IN  [num |-> Range(sm.vals), den |-> 200 * sm.scale]

Metrics(seq) ==
    [hip        |-> analyze_hip_movement(seq),
     knee       |-> analyze_knee_movement(seq),
     shoulder   |-> analyze_shoulder_movement(seq),
     elbow      |-> analyze_elbow_movement(seq),
     horizontal |-> check_horizontal_body_position(seq),
     asym       |-> detect_asymmetric_leg_movement(seq)]

(***************************************************************************)
(* detect_exercise_type: the confidence totals and the decision.           *)
(***************************************************************************)
\* Mutant of squat_confidence: the hip test of the second rule is not strict.
squat_confidence_NotStrict(m) ==
    (IF Gt(m.hip, 2, 10) /\ Gt(m.knee, 25, 100) THEN 40 ELSE 0)
    + (IF m.hip.num * 10 >= 3 * m.hip.den THEN 30 ELSE 0)
    + (IF Gt(m.knee, 4, 10) THEN 30 ELSE 0)

squat_confidence(m) ==
    (IF Gt(m.hip, 2, 10) /\ Gt(m.knee, 25, 100) THEN 40 ELSE 0)
    + (IF Gt(m.hip, 3, 10) THEN 30 ELSE 0)
    + (IF Gt(m.knee, 4, 10) THEN 30 ELSE 0)

pushup_confidence(m) ==
    (IF Gt(m.elbow, 3, 10) /\ Gt(m.shoulder, 15, 100) THEN 40 ELSE 0)
    + (IF m.horizontal THEN 35 ELSE 0)
    + (IF Gt(m.elbow, 4, 10) THEN 25 ELSE 0)

\* Mutant of lunge_confidence: the points of the two rules are exchanged.
lunge_confidence_PointsSwapped(m) ==
    (IF m.asym THEN 40 ELSE 0)
    + (IF Gt(m.hip, 25, 100) /\ Gt(m.knee, 3, 10) THEN 60 ELSE 0)

lunge_confidence(m) ==
    (IF m.asym THEN 60 ELSE 0)
    + (IF Gt(m.hip, 25, 100) /\ Gt(m.knee, 3, 10) THEN 40 ELSE 0)

\* Mutant of Decide: push_up is looked at before squat.
Decide_PushupFirst(squat, pushup, lunge) ==
    LET max_confidence == Max2(squat, Max2(pushup, lunge))
    IN  IF max_confidence < 50 THEN "unknown"
        ELSE IF pushup = max_confidence THEN "push_up"
        ELSE IF squat = max_confidence THEN "squat"
        ELSE "lunge"

Decide(squat, pushup, lunge) ==
    LET max_confidence == Max2(squat, Max2(pushup, lunge))
    IN  IF max_confidence < 50 THEN "unknown"
        ELSE IF squat = max_confidence THEN "squat"
        ELSE IF pushup = max_confidence THEN "push_up"
        ELSE "lunge"

Classify(m) == Decide(squat_confidence(m), pushup_confidence(m), lunge_confidence(m))

\* Mutant of detect_exercise_type: the metric helpers have no try/except of
\* their own, so an IndexError in any of them reaches the except of
\* detect_exercise_type.
detect_exercise_type_OuterExcept(seq) ==
    IF Len(seq) = 0 THEN "unknown"
    ELSE IF Raises(seq, {11, 12, 13, 15, 23, 24, 25, 26, 27, 28}) THEN "unknown"
    ELSE Classify(Metrics(seq))

detect_exercise_type(seq) ==
    IF Len(seq) = 0 THEN "unknown" ELSE Classify(Metrics(seq))

(***************************************************************************)
(* scipy.signal.find_peaks(x, height, distance), as count_*_reps calls it. *)
(* A local maximum is a sample, or the middle of a flat run of samples,    *)
(* strictly above both neighbours (never the first or last sample); those  *)
(* with x >= height are kept; then, from the highest to the lowest (equal  *)
(* heights: the later one first, numpy's argsort of a short array being    *)
(* stable and being walked backwards), a peak still kept removes every     *)
(* other peak closer than distance.  The result is the set of positions.   *)
(***************************************************************************)
LocalMaxima(xs) ==
    LET n == Len(xs)
    IN  { (i + j) \div 2 : <<i, j>> \in
            { ij \in (2..(n - 1)) \X (2..(n - 1)) :
                /\ ij[1] <= ij[2]
                /\ \A k \in ij[1]..ij[2] : xs[k] = xs[ij[1]]
                /\ xs[ij[1] - 1] < xs[ij[1]]
                /\ xs[ij[2] + 1] < xs[ij[1]] } }

\* the peak _select_by_peak_distance visits first among cand
Highest(xs, cand) ==
    CHOOSE p \in cand : \A q \in cand : xs[q] < xs[p] \/ (xs[q] = xs[p] /\ q <= p)

RECURSIVE SelectByDistance(_, _, _, _)
SelectByDistance(xs, cand, kept, distance) ==
    IF cand = {} THEN kept
    ELSE LET p == Highest(xs, cand)
         IN  SelectByDistance(xs, {q \in cand : Abs(q - p) >= distance},
                              kept \cup {p}, distance)

find_peaks(xs, height, distance) ==
    SelectByDistance(xs, {p \in LocalMaxima(xs) : xs[p] >= height}, {}, distance)

Negated(xs) == [k \in 1..Len(xs) |-> -xs[k]]

(***************************************************************************)
(* Repetition counting.                                                    *)
(***************************************************************************)
\* Mutant of count_squat_reps: the peaks alone are counted.
count_squat_reps_PeaksOnly(seq) ==
    IF Raises(seq, {23, 24, 25, 26, 27, 28}) THEN 0
    ELSE LET knee_angles == KneeSignal(seq)
         IN  IF Len(knee_angles) < MinRepFrames THEN 0
             ELSE LET sm == smooth_data(knee_angles, Min2(7, Len(knee_angles)))
                      peaks == find_peaks(sm.vals, 160 * 2 * sm.scale, 10)
                  IN  Cardinality(peaks)

count_squat_reps(seq) ==
    IF Raises(seq, {23, 24, 25, 26, 27, 28}) THEN 0
    ELSE LET knee_angles == KneeSignal(seq)
         IN  IF Len(knee_angles) < MinRepFrames THEN 0
             ELSE LET sm == smooth_data(knee_angles, Min2(7, Len(knee_angles)))
                      peaks == find_peaks(sm.vals, 160 * 2 * sm.scale, 10)
                      valleys == find_peaks(Negated(sm.vals), -(90 * 2 * sm.scale), 10)
                  IN  Min2(Cardinality(peaks), Cardinality(valleys))

count_pushup_reps(seq) ==
    IF Raises(seq, {11, 12, 13, 14, 15, 16}) THEN 0
    ELSE LET elbow_angles == AvgElbowSignal(seq)
         IN  IF Len(elbow_angles) < MinRepFrames THEN 0
             ELSE LET sm == smooth_data(elbow_angles, Min2(7, Len(elbow_angles)))
                      peaks == find_peaks(sm.vals, 160 * 2 * sm.scale, 8)
                      valleys == find_peaks(Negated(sm.vals), -(70 * 2 * sm.scale), 8)
                  IN  Min2(Cardinality(peaks), Cardinality(valleys))

\* the knee angle series count_lunge_reps smooths: the leg with the larger
\* range, the right leg when the ranges are equal
ActiveLeg(seq) ==
    LET left_knee_angles == LeftKneeSignal(seq)
        right_knee_angles == RightKneeSignal(seq)
    IN  IF Range(left_knee_angles) > Range(right_knee_angles)
        THEN left_knee_angles ELSE right_knee_angles

count_lunge_reps(seq) ==
    IF Raises(seq, {23, 24, 25, 26, 27, 28}) THEN 0
    ELSE IF Len(Seen(seq)) < MinRepFrames THEN 0
    ELSE LET sm == smooth_data(ActiveLeg(seq), 5)
             peaks == find_peaks(sm.vals, 140 * sm.scale, 10)
             valleys == find_peaks(Negated(sm.vals), -(100 * sm.scale), 10)
         IN  Min2(Cardinality(peaks), Cardinality(valleys))

count_repetitions(seq, exercise_type) ==
    CASE exercise_type = "squat"   -> count_squat_reps(seq)
      [] exercise_type = "push_up" -> count_pushup_reps(seq)
      [] exercise_type = "lunge"   -> count_lunge_reps(seq)
      [] OTHER                     -> 0

(***************************************************************************)
(* Form analysis.  A result is [feedback, score]; the score is in          *)
(* hundredths of a point.  `count > total_frames * t` is compared exactly  *)
(* (the floating-point product agrees with the exact one for every total   *)
(* below 5000).                                                            *)
(***************************************************************************)
\* feedback.append(msg); form_score -= penalty, when the condition holds
Penalise(r, cond, msg, penalty) ==
    IF cond THEN [feedback |-> Append(r.feedback, msg), score |-> r.score - penalty]
    ELSE r

\* Mutant of Affirm: the affirmation is never appended.
Affirm_Never(r, msg) == r

\* Mutant of Affirm: the affirmation is appended whatever the feedback holds.
Affirm_Always(r, msg) == [feedback |-> Append(r.feedback, msg), score |-> r.score]

\* if not feedback: feedback.append(msg)
Affirm(r, msg) ==
    IF r.feedback = <<>> THEN [feedback |-> <<msg>>, score |-> r.score] ELSE r

KneeCave(f)    == X(f, 25) < Min2(X(f, 23), X(f, 27)) - 2
KneeForward(f) == X(f, 25) > X(f, 27) + 5
\* abs(arctan2(dy, dx)) in degrees < 60, for the vector hip -> shoulder:
\* the direction is within 60 degrees of the positive x axis (cos > 1/2);
\* arctan2(0, 0) is 0
BackLean(f) ==
    LET dx == (X(f, 11) + X(f, 12)) - (X(f, 23) + X(f, 24))
        dy == ShoulderY2(f) - HipY2(f)
    IN  (dx = 0 /\ dy = 0) \/ (dx > 0 /\ dy * dy < 3 * dx * dx)
DepthInsufficient(f) == HipY2(f) < KneeY2(f) - 4

\* the violation counters of the loop over the frames
knee_cave_frames(seq) ==
    Cardinality({k \in 1..Len(seq) : Truthy(seq[k]) /\ KneeCave(seq[k])})
knee_forward_frames(seq) ==
    Cardinality({k \in 1..Len(seq) : Truthy(seq[k]) /\ KneeForward(seq[k])})
back_lean_frames(seq) ==
    Cardinality({k \in 1..Len(seq) : Truthy(seq[k]) /\ BackLean(seq[k])})
depth_insufficient_frames(seq) ==
    Cardinality({k \in 1..Len(seq) : Truthy(seq[k]) /\ DepthInsufficient(seq[k])})

analyze_squat_form(seq) ==
    IF Raises(seq, {11, 12, 23, 24, 25, 26, 27})
    THEN [feedback |-> <<"Error analyzing squat form">>, score |-> 500]
    ELSE LET total_frames == Len(seq)
             r0 == [feedback |-> <<>>, score |-> 1000]
             r1 == Penalise(r0, 100 * knee_cave_frames(seq) > 15 * total_frames,
                       "Keep your knees aligned with your toes - avoid knee cave", 250)
             r2 == Penalise(r1, 10 * knee_forward_frames(seq) > 2 * total_frames,
                       "Keep your knees behind your toes", 150)
             r3 == Penalise(r2, 100 * back_lean_frames(seq) > 25 * total_frames,
                       "Keep your chest up and back straight", 200)
             r4 == Penalise(r3, 10 * depth_insufficient_frames(seq) > 3 * total_frames,
                       "Go deeper - hips should go below knee level", 150)
         IN  Affirm(r4, "Excellent squat form! Keep it up!")

HipSag(f)       == HipY2(f) > Max2(ShoulderY2(f), AnkleY2(f)) + 6
HipPike(f)      == HipY2(f) < Min2(ShoulderY2(f), AnkleY2(f)) - 6
PartialRom(f)   == LeftElbow(f) > 110
HeadPosition(f) == 2 * Y(f, 0) > ShoulderY2(f) + 10

hip_sag_frames(seq) ==
    Cardinality({k \in 1..Len(seq) : Truthy(seq[k]) /\ HipSag(seq[k])})
hip_pike_frames(seq) ==
    Cardinality({k \in 1..Len(seq) : Truthy(seq[k]) /\ HipPike(seq[k])})
partial_rom_frames(seq) ==
    Cardinality({k \in 1..Len(seq) : Truthy(seq[k]) /\ PartialRom(seq[k])})
head_position_frames(seq) ==
    Cardinality({k \in 1..Len(seq) : Truthy(seq[k]) /\ HeadPosition(seq[k])})

analyze_pushup_form(seq) ==
    IF Raises(seq, {0, 11, 12, 13, 15, 23, 24, 27, 28})
    THEN [feedback |-> <<"Error analyzing push-up form">>, score |-> 500]
    ELSE LET total_frames == Len(seq)
             r0 == [feedback |-> <<>>, score |-> 1000]
             r1 == Penalise(r0, 10 * hip_sag_frames(seq) > 2 * total_frames,
                       "Keep your core tight - avoid hip sag", 250)
             r2 == Penalise(r1, 10 * hip_pike_frames(seq) > 2 * total_frames,
                       "Keep your body straight - avoid piking your hips", 200)
             r3 == Penalise(r2, 10 * partial_rom_frames(seq) > 3 * total_frames,
                       "Go lower - chest should nearly touch the ground", 200)
             r4 == Penalise(r3, 100 * head_position_frames(seq) > 25 * total_frames,
                       "Keep your head in neutral position", 100)
         IN  Affirm(r4, "Perfect push-up form! Well done!")

TorsoLean(f)         == Abs((X(f, 11) + X(f, 12)) - (X(f, 23) + X(f, 24))) > 16
LungeInsufficient(f) == Min2(Y(f, 25), Y(f, 26)) > 70

torso_lean_frames(seq) ==
    Cardinality({k \in 1..Len(seq) : Truthy(seq[k]) /\ TorsoLean(seq[k])})
insufficient_depth_frames(seq) ==
    Cardinality({k \in 1..Len(seq) : Truthy(seq[k]) /\ LungeInsufficient(seq[k])})

\* Mutant of analyze_lunge_form: the torso rule fires at its threshold too.
analyze_lunge_form_NotStrict(seq) ==
    IF Raises(seq, {11, 12, 23, 24, 25, 26, 27})
    THEN [feedback |-> <<"Error analyzing lunge form">>, score |-> 500]
    ELSE LET total_frames == Len(seq)
             r0 == [feedback |-> <<>>, score |-> 1000]
             r1 == Penalise(r0, 10 * knee_forward_frames(seq) > 2 * total_frames,
                       "Keep your front knee behind your toes", 200)
             r2 == Penalise(r1, 100 * torso_lean_frames(seq) >= 25 * total_frames,
                       "Keep your torso upright", 150)
             r3 == Penalise(r2, 10 * insufficient_depth_frames(seq) > 3 * total_frames,
                       "Go deeper in your lunge", 150)
         IN  Affirm(r3, "Great lunge form!")

analyze_lunge_form(seq) ==
    IF Raises(seq, {11, 12, 23, 24, 25, 26, 27})
    THEN [feedback |-> <<"Error analyzing lunge form">>, score |-> 500]
    ELSE LET total_frames == Len(seq)
             r0 == [feedback |-> <<>>, score |-> 1000]
             r1 == Penalise(r0, 10 * knee_forward_frames(seq) > 2 * total_frames,
                       "Keep your front knee behind your toes", 200)
             r2 == Penalise(r1, 100 * torso_lean_frames(seq) > 25 * total_frames,
                       "Keep your torso upright", 150)
             r3 == Penalise(r2, 10 * insufficient_depth_frames(seq) > 3 * total_frames,
                       "Go deeper in your lunge", 150)
         IN  Affirm(r3, "Great lunge form!")

\* Mutant of NotRecognized: the score of the early returns (0.0) is used.
NotRecognized_Zero ==
    [feedback |-> <<"Exercise not recognized for detailed analysis">>, score |-> 0]

\* the else branch of analyze_form
NotRecognized ==
    [feedback |-> <<"Exercise not recognized for detailed analysis">>, score |-> 500]

\* max(0.0, min(10.0, form_score))
Clamp(score) == Max2(0, Min2(1000, score))

\* feedback and form_score as they stand before the return of analyze_form
FormBeforeClamp(seq, exercise_type) ==
    CASE exercise_type = "squat"   -> analyze_squat_form(seq)
      [] exercise_type = "push_up" -> analyze_pushup_form(seq)
      [] exercise_type = "lunge"   -> analyze_lunge_form(seq)
      [] OTHER -> NotRecognized

analyze_form(seq, exercise_type) ==
    LET r == CASE exercise_type = "squat"   -> analyze_squat_form(seq)
               [] exercise_type = "push_up" -> analyze_pushup_form(seq)
               [] exercise_type = "lunge"   -> analyze_lunge_form(seq)
               [] OTHER -> NotRecognized
    IN  [feedback |-> r.feedback, score |-> Clamp(r.score)]

(***************************************************************************)
(* The video file: what cv2.VideoCapture and the pose estimator deliver.   *)
(* A video is `none` frames without a pose followed by detected frames     *)
(* that alternate between two poses in runs of `run` frames; the frames of *)
(* the second pose carry `n` landmarks.                                    *)
(***************************************************************************)
Motions ==
    { <<"Stand", "Stand">>, <<"Stand", "Squat">>, <<"SquatCave", "SquatFwd">>,
      <<"PlankUp", "PlankDown">>, <<"PlankSag", "PlankPike">>, <<"Stand", "LungeDown">> }

Videos ==
    [motion : Motions, run : MinRun..MaxRun, n : LandmarkCounts, none : 0..MaxNone]

NoVideo == [motion |-> <<"none", "none">>, run |-> 0, n |-> 0, none |-> 0]

\* the j-th detected frame of a motion
MotionFrame(motion, run, n, j) ==
    IF ((j - 1) \div run) % 2 = 0 THEN PoseFrame(motion[1], FullLandmarks)
    ELSE PoseFrame(motion[2], n)

\* the k-th frame cap.read() and pose.process deliver
FrameAt(v, k) ==
    IF k <= v.none THEN NoneFrame ELSE MotionFrame(v.motion, v.run, v.n, k - v.none)

(***************************************************************************)
(* The records analyze_video returns.                                      *)
(***************************************************************************)

Record(name, reps, feedback, score) ==
    [exerciseName |-> name, repCount |-> reps, feedback |-> feedback, formScore |-> score]

\* no record returned yet
NoResult == Record("pending", 0, <<>>, 0)

CouldNotOpen == Record("error", 0, <<"Could not open video file">>, 0)
NoPose       == Record("unknown", 0, <<"Could not detect pose in video">>, 0)
TooShort     == Record("unknown", 0, <<"Video too short for analysis">>, 0)
\* f"Analysis failed: {str(e)}": the text of the exception is not modelled
AnalysisFailed == Record("error", 0, <<"Analysis failed: <exception>">>, 0)

\* Mutant of EarlyReturn: the length test is off by one (< 29).
EarlyReturn_OffByOne(valid) ==
    IF Len(valid) = 0 THEN NoPose
    ELSE IF Len(valid) < MinValidFrames - 1 THEN TooShort
    ELSE NoResult

\* Mutant of EarlyReturn: the test for an empty list is missing.
EarlyReturn_NoEmptyTest(valid) ==
    IF Len(valid) < MinValidFrames THEN TooShort ELSE NoResult

\* The two early returns after filtering: the record returned, or NoResult
\* when the analysis goes on.
EarlyReturn(valid) ==
    IF Len(valid) = 0 THEN NoPose
    ELSE IF Len(valid) < MinValidFrames THEN TooShort
    ELSE NoResult

\* round(form_score, 1), on hundredths
Round1(score) == ((score + 5) \div 10) * 10

\* Mutant of Quality: the comparison is not strict.
Quality_NotStrict(valid_count, total_count) ==
    IF 10 * valid_count >= 8 * total_count THEN "high" ELSE "medium"

\* "high" if len(valid_landmarks) / frame_count > 0.8 else "medium"
Quality(valid_count, total_count) ==
    IF 10 * valid_count > 8 * total_count THEN "high" ELSE "medium"

\* [lm for lm in landmarks_sequence if lm is not None]
Detected(f) == f.detected
FilterValid(seq) == SelectSeq(seq, Detected)

(***************************************************************************)
(* State.                                                                  *)
(***************************************************************************)
VARIABLES
    pc,                 \* where analyze_video (or a called function) stands
    video,              \* the file behind cap
    landmarks_sequence, \* one entry per frame read
    frame_count,
    valid_landmarks,
    exercise_type,
    rep_count,
    form,               \* (feedback, form_score) of analyze_form
    result,             \* the returned record
    ran,                \* history: the stages that have run
    arg,                \* the argument of a function applied on its own
    ret                 \* and what it returned

vars == <<pc, video, landmarks_sequence, frame_count, valid_landmarks,
          exercise_type, rep_count, form, result, ran, arg, ret>>

locals == <<landmarks_sequence, frame_count, valid_landmarks, exercise_type,
            rep_count, form>>

NoForm == [feedback |-> <<>>, score |-> 1000]

Idle ==
    /\ video = NoVideo
    /\ landmarks_sequence = <<>>
    /\ frame_count = 0
    /\ valid_landmarks = <<>>
    /\ exercise_type = "none"
    /\ rep_count = 0
    /\ form = NoForm
    /\ result = NoResult
    /\ ran = {}

NoCall == [fn |-> "none"]

Init == pc = "open" /\ Idle /\ arg = NoCall /\ ret = NoCall

(***************************************************************************)
(* analyze_video, one action per step.                                     *)
(***************************************************************************)
\* cap = cv2.VideoCapture(video_path); not cap.isOpened()
OpenFails ==
    /\ pc = "open"
    /\ result' = CouldNotOpen
    /\ pc' = "done"
    /\ UNCHANGED <<video, locals, ran, arg, ret>>

Open ==
    /\ pc = "open"
    /\ video' \in Videos
    /\ pc' = "read"
    /\ UNCHANGED <<locals, result, ran, arg, ret>>

\* one turn of the while loop: a frame is read and its landmarks (or None)
\* are appended
ReadFrame ==
    /\ pc = "read"
    /\ frame_count < video.none + MaxValid
    /\ frame_count' = frame_count + 1
    /\ landmarks_sequence' = Append(landmarks_sequence, FrameAt(video, frame_count + 1))
    /\ UNCHANGED <<pc, video, valid_landmarks, exercise_type, rep_count, form,
                   result, ran, arg, ret>>

\* cap.read(), cv2.resize, cv2.cvtColor or pose.process raises: the outer
\* except returns the error record
ReadFault ==
    /\ pc = "read"
    /\ result' = AnalysisFailed
    /\ pc' = "done"
    /\ UNCHANGED <<video, locals, ran, arg, ret>>

\* cap.read() reports no further frame; cap.release(); the valid frames
\* are filtered out
EndOfVideo ==
    /\ pc = "read"
    /\ valid_landmarks' = FilterValid(landmarks_sequence)
    /\ ran' = ran \cup {"capture"}
    /\ pc' = "filter"
    /\ UNCHANGED <<video, landmarks_sequence, frame_count, exercise_type, rep_count,
                   form, result, arg, ret>>

\* if not valid_landmarks: ... / if len(valid_landmarks) < 30: ...
CheckLength ==
    /\ pc = "filter"
    /\ LET early == EarlyReturn(valid_landmarks)
       IN  IF early = NoResult
           THEN result' = result /\ pc' = "detect"
           ELSE result' = early /\ pc' = "done"
    /\ UNCHANGED <<video, locals, ran, arg, ret>>

Detect ==
    /\ pc = "detect"
    /\ exercise_type' = detect_exercise_type(valid_landmarks)
    /\ ran' = ran \cup {"detect"}
    /\ pc' = "count"
    /\ UNCHANGED <<video, landmarks_sequence, frame_count, valid_landmarks, rep_count,
                   form, result, arg, ret>>

Count ==
    /\ pc = "count"
    /\ rep_count' = count_repetitions(valid_landmarks, exercise_type)
    /\ ran' = ran \cup {"count"}
    /\ pc' = "form"
    /\ UNCHANGED <<video, landmarks_sequence, frame_count, valid_landmarks,
                   exercise_type, form, result, arg, ret>>

Form ==
    /\ pc = "form"
    /\ form' = analyze_form(valid_landmarks, exercise_type)
    /\ ran' = ran \cup {"form"}
    /\ pc' = "return"
    /\ UNCHANGED <<video, landmarks_sequence, frame_count, valid_landmarks,
                   exercise_type, rep_count, result, arg, ret>>

\* Mutant of FullRecord: the stages do not contain their faults, so a frame
\* with missing landmarks raises into the outer except.
FullRecord_FaultAborts ==
    IF frame_count = 0 \/ Raises(valid_landmarks, 0..(FullLandmarks - 1))
    THEN AnalysisFailed
    ELSE [exerciseName |-> exercise_type,
          repCount |-> rep_count,
          feedback |-> form.feedback,
          formScore |-> Round1(form.score),
          analysisQuality |-> Quality(Len(valid_landmarks), frame_count)]

\* the record of a completed analysis; frame_count = 0 would raise
\* ZeroDivisionError into the outer except
FullRecord ==
    IF frame_count = 0 THEN AnalysisFailed
    ELSE [exerciseName |-> exercise_type,
          repCount |-> rep_count,
          feedback |-> form.feedback,
          formScore |-> Round1(form.score),
          analysisQuality |-> Quality(Len(valid_landmarks), frame_count)]

Return ==
    /\ pc = "return"
    /\ result' = FullRecord
    /\ pc' = "done"
    /\ UNCHANGED <<video, locals, ran, arg, ret>>

Next ==
    \/ OpenFails \/ Open \/ ReadFrame \/ ReadFault \/ EndOfVideo
    \/ CheckLength \/ Detect \/ Count \/ Form \/ Return

Spec == Init /\ [][Next]_vars

(***************************************************************************)
(* Properties of analyze_video (checked under Spec).                       *)
(***************************************************************************)
Stages == {"detect", "count", "form"}
Done == pc = "done"
\* the capture loop ended normally and the frames were filtered
Captured == "capture" \in ran
\* the classifier, the counter and the form analyzer have all run
FullPipeline == Stages \subseteq ran
\* frames of landmarks_sequence with / without a pose
ValidCount ==
    Cardinality({k \in 1..Len(landmarks_sequence) : landmarks_sequence[k] # NoneFrame})
NoneCount ==
    Cardinality({k \in 1..Len(landmarks_sequence) : landmarks_sequence[k] = NoneFrame})
HasQuality == "analysisQuality" \in DOMAIN result

\* C1 as stated: every captured sequence with fewer than 30 valid frames
\* returns unknown / 0 / ["Video too short for analysis"] / 0.0.
C1_AnyShortIsTooShort ==
    (Done /\ Captured /\ ValidCount < 30) => result = TooShort

\* C1 amended: every captured sequence with at least 1 and fewer than 30
\* valid frames returns exactly unknown / 0 / ["Video too short for
\* analysis"] / 0.0 (a sequence with no valid frame returns the no-pose
\* record instead).
C1_TooShort ==
    (Done /\ Captured /\ ValidCount >= 1 /\ ValidCount < 30) =>
        /\ result.exerciseName = "unknown"
        /\ result.repCount = 0
        /\ result.feedback = <<"Video too short for analysis">>
        /\ result.formScore = 0
        /\ ~HasQuality

C1_Witness ==
    Done /\ Captured /\ ValidCount = 29 /\ NoneCount > 0 /\ result = TooShort

\* C2: a captured sequence without any valid frame (no frame at all, or
\* only undetected frames) returns exactly unknown / 0 / ["Could not detect
\* pose in video"] / 0.0 without analysisQuality, and no stage has run.
C2_NoPose ==
    (Done /\ Captured /\ ValidCount = 0) =>
        /\ result.exerciseName = "unknown"
        /\ result.repCount = 0
        /\ result.feedback = <<"Could not detect pose in video">>
        /\ result.formScore = 0
        /\ DOMAIN result = {"exerciseName", "repCount", "feedback", "formScore"}
        /\ ran \cap Stages = {}

C2_Witness ==
    Done /\ Captured /\ ValidCount = 0 /\ NoneCount >= 2 /\ result = NoPose

\* C3: every returned record has exerciseName among squat, push_up, lunge,
\* unknown, error; an integer repCount >= 0; a non-empty feedback list; a
\* formScore within [0, 10]; and analysisQuality (high or medium) exactly
\* when all three stages ran on at least 30 valid frames.
C3_RecordWellFormed ==
    Done =>
        /\ result.exerciseName \in {"squat", "push_up", "lunge", "unknown", "error"}
        /\ result.repCount \in Nat
        /\ Len(result.feedback) >= 1
        /\ result.formScore >= 0 /\ result.formScore <= 1000
        /\ HasQuality <=> (FullPipeline /\ Captured /\ ValidCount >= 30)
        /\ HasQuality => result.analysisQuality \in {"high", "medium"}

C3_Witness ==
    /\ Done /\ FullPipeline /\ HasQuality
    /\ result.exerciseName = "lunge"
    /\ result.feedback = <<"Great lunge form!">>
    /\ result.formScore = 1000

\* C8: after the full pipeline analysisQuality is "high" exactly when
\* valid / (valid + undetected) > 0.8 and "medium" otherwise, the
\* denominator being every frame read (frame_count), which is not 0.
C8_Quality ==
    (Done /\ FullPipeline) =>
        /\ frame_count = ValidCount + NoneCount
        /\ frame_count > 0
        /\ HasQuality
        /\ result.analysisQuality =
              (IF 5 * ValidCount > 4 * (ValidCount + NoneCount) THEN "high" ELSE "medium")

\* 32 valid frames of 40: the ratio is exactly 0.8
C8_Witness ==
    /\ Done /\ FullPipeline /\ ValidCount = 32 /\ NoneCount = 8
    /\ result.analysisQuality = "medium"

\* C9: with at least 30 valid frames every stage runs; when the classifier
\* returned unknown the record is unknown / 0 / ["Exercise not recognized
\* for detailed analysis"] / 5.0 with analysisQuality; an unknown record
\* with score 0.0 comes only from the no-pose and too-short returns.
C9_UnknownAfterPipeline ==
    Done =>
        /\ (Captured /\ ValidCount >= 30) => FullPipeline
        /\ (FullPipeline /\ exercise_type = "unknown") =>
              /\ result.exerciseName = "unknown"
              /\ result.repCount = 0
              /\ result.feedback = <<"Exercise not recognized for detailed analysis">>
              /\ result.formScore = 500
              /\ HasQuality
        /\ (result.exerciseName = "unknown" /\ result.formScore = 0) =>
              /\ result \in {NoPose, TooShort}
              /\ ran \cap Stages = {}

C9_Witness ==
    /\ Done /\ FullPipeline /\ exercise_type = "unknown"
    /\ ValidCount >= 30 /\ result.formScore = 500 /\ HasQuality

(***************************************************************************)
(* Stage faults.  The only exception the stages can meet is the IndexError *)
(* of landmarks[i] on a frame that carries too few landmarks.              *)
(***************************************************************************)
\* some valid frame has no landmark at one of the indices
Lacks(idxs) ==
    \E k \in 1..Len(valid_landmarks) : \E i \in idxs : valid_landmarks[k].n <= i
\* the same poses with all 33 landmarks delivered
Completed(seq) == [k \in 1..Len(seq) |-> PoseFrame(seq[k].pose, FullLandmarks)]

Legs == {23, 24, 25, 26, 27, 28}
Arms == {11, 12, 13, 14, 15, 16}
\* a landmark read by one of the classifier's helpers is missing
ClassifyFault == Lacks({11, 12, 13, 15} \cup Legs)
\* a landmark read by the counter of the classified exercise is missing
CountFault ==
    \/ exercise_type \in {"squat", "lunge"} /\ Lacks(Legs)
    \/ exercise_type = "push_up" /\ Lacks(Arms)
\* a landmark read by the form analyzer of the classified exercise is missing
FormFault ==
    \/ exercise_type \in {"squat", "lunge"} /\ Lacks({11, 12, 23, 24, 25, 26, 27})
    \/ exercise_type = "push_up" /\ Lacks({0, 11, 12, 13, 15, 23, 24, 27, 28})

ErrorFeedback ==
    { <<"Error analyzing squat form">>, <<"Error analyzing push-up form">>,
      <<"Error analyzing lunge form">>, <<"Error analyzing form">> }

\* what the count, the form stage and the record add, whatever the
\* classifier did
C10_OtherStages ==
    /\ CountFault => result.repCount = 0
    /\ ~CountFault =>
          result.repCount = count_repetitions(Completed(valid_landmarks), exercise_type)
    /\ FormFault => result.feedback \in ErrorFeedback /\ result.formScore = 500
    /\ ~FormFault =>
          LET f == analyze_form(Completed(valid_landmarks), exercise_type)
          IN  result.feedback = f.feedback /\ result.formScore = f.score
    /\ result.exerciseName = exercise_type
    /\ result.exerciseName # "error"
    /\ HasQuality

\* C10 as stated: a fault inside classification yields unknown, a fault
\* inside counting 0, a fault inside form scoring one error string and 5.0;
\* the other stages' contributions are unchanged, analysisQuality is
\* present and exerciseName is never "error".
C10_ClassifyFaultIsUnknown ==
    (Done /\ FullPipeline) =>
        /\ ClassifyFault => result.exerciseName = "unknown"
        /\ C10_OtherStages

\* C10 amended: a fault inside one of the classifier's metric helpers
\* replaces that metric alone by 0 / false and the classification is
\* decided from the totals as usual (so it can still be push_up); a fault
\* inside counting yields 0 and a fault inside form scoring one error
\* string and 5.0; what did not fault equals what the same poses with all
\* landmarks give; analysisQuality is present and exerciseName is never
\* "error".
C10_StageIsolation ==
    (Done /\ FullPipeline) =>
        /\ LET m == Metrics(Completed(valid_landmarks))
               degraded ==
                   [hip        |-> IF Lacks({23, 24}) THEN Zero ELSE m.hip,
                    knee       |-> IF Lacks(Legs) THEN Zero ELSE m.knee,
                    shoulder   |-> IF Lacks({11, 12}) THEN Zero ELSE m.shoulder,
                    elbow      |-> IF Lacks({11, 13, 15}) THEN Zero ELSE m.elbow,
                    horizontal |-> ~Lacks({11, 12, 23, 24}) /\ m.horizontal,
                    asym       |-> ~Lacks(Legs) /\ m.asym]
           IN  result.exerciseName = Classify(degraded)
        /\ C10_OtherStages

C10_Witness ==
    /\ Done /\ FullPipeline
    /\ ClassifyFault /\ CountFault /\ FormFault
    /\ result.exerciseName = "push_up"
    /\ result.repCount = 0
    /\ result.feedback = <<"Error analyzing push-up form">>
    /\ result.formScore = 500
    /\ HasQuality

\* a valid frame does not carry all 33 landmarks
Malformed == Lacks(0..(FullLandmarks - 1))

\* C11 as stated: with at least 30 valid frames a computation failure such
\* as a valid frame without all 33 landmarks is surfaced as exerciseName
\* "error" with one feedback string and formScore 0.0.
C11_MalformedIsError ==
    (Done /\ Captured /\ Len(valid_landmarks) >= MinValidFrames /\ Malformed) =>
        /\ result.exerciseName = "error"
        /\ Len(result.feedback) = 1
        /\ result.formScore = 0

\* C11 amended: the record is an error record (exerciseName "error",
\* repCount 0, one feedback string describing the failure, formScore 0.0,
\* no analysisQuality) exactly when the fault arose outside the three
\* stages, that is when the video could not be opened or reading a frame
\* raised; a valid frame without all 33 landmarks in a sequence of at least
\* 30 valid frames is absorbed by the stages and the record then carries
\* the classifier's answer and analysisQuality.
C11_ErrorOutsideStages ==
    Done =>
        /\ result.exerciseName = "error" <=> ~Captured
        /\ ~Captured => result \in {CouldNotOpen, AnalysisFailed}
        /\ (Captured /\ Len(valid_landmarks) >= MinValidFrames /\ Malformed) =>
              /\ FullPipeline
              /\ result.exerciseName = exercise_type
              /\ result.exerciseName \in {"squat", "push_up", "lunge", "unknown"}
              /\ HasQuality

\* a squat video whose squat frames lack the leg landmarks runs the whole
\* pipeline and is reported as unknown, not as an error
C11_Witness ==
    /\ Done /\ Captured /\ Malformed
    /\ Len(valid_landmarks) >= MinValidFrames
    /\ video.motion = <<"Stand", "Squat">>
    /\ result.exerciseName = "unknown"
    /\ result.repCount = 0
    /\ result.formScore = 500
    /\ HasQuality

(***************************************************************************)
(* The classifier applied on its own: Decide to every triple of totals,    *)
(* and the scoring to movement metrics around every threshold.             *)
(***************************************************************************)
\* the totals the rules can add up to lie among the multiples of 5
Totals == {5 * k : k \in 0..20}
Hundredths(nums) == [num : nums, den : {100}]
MetricInputs ==
    [hip        : Hundredths({0, 20, 21, 25, 26, 30, 31, 35}),
     knee       : Hundredths({0, 25, 26, 30, 31, 40, 41, 45}),
     shoulder   : Hundredths({15, 16}),
     elbow      : Hundredths({0, 30, 31, 40, 41}),
     horizontal : BOOLEAN,
     asym       : BOOLEAN]

InitClassify ==
    /\ pc = "call"
    /\ Idle
    /\ \/ arg \in [fn : {"decide"}, squat : Totals, pushup : Totals, lunge : Totals]
       \/ arg \in [fn : {"classify"}, m : MetricInputs]
    /\ ret = NoCall

CallDecide ==
    /\ pc = "call" /\ arg.fn = "decide"
    /\ ret' = [fn |-> "decide", type |-> Decide(arg.squat, arg.pushup, arg.lunge)]
    /\ pc' = "returned"
    /\ UNCHANGED <<video, locals, result, ran, arg>>

CallClassify ==
    /\ pc = "call" /\ arg.fn = "classify"
    /\ ret' = [fn |-> "classify",
               squat |-> squat_confidence(arg.m),
               pushup |-> pushup_confidence(arg.m),
               lunge |-> lunge_confidence(arg.m),
               type |-> Classify(arg.m)]
    /\ pc' = "returned"
    /\ UNCHANGED <<video, locals, result, ran, arg>>

NextClassify == CallDecide \/ CallClassify

SpecClassify == InitClassify /\ [][NextClassify]_vars

Returned(fn) == pc = "returned" /\ arg.fn = fn

\* C4: for every triple of totals the classifier answers unknown when the
\* maximum is below 50, and otherwise the first of squat, push_up, lunge
\* whose total equals the maximum.
C4_Decision ==
    Returned("decide") =>
        LET sq == arg.squat
            pu == arg.pushup
            lu == arg.lunge
            isMax(t) == t >= sq /\ t >= pu /\ t >= lu
        IN  /\ (sq < 50 /\ pu < 50 /\ lu < 50) => ret.type = "unknown"
            /\ (isMax(sq) /\ sq >= 50) => ret.type = "squat"
            /\ (isMax(pu) /\ pu >= 50 /\ ~isMax(sq)) => ret.type = "push_up"
            /\ (isMax(lu) /\ lu >= 50 /\ ~isMax(sq) /\ ~isMax(pu)) => ret.type = "lunge"
            /\ ret.type \in {"unknown", "squat", "push_up", "lunge"}

\* a three-way tie at the maximum goes to squat
C4_Witness ==
    /\ Returned("decide")
    /\ arg.squat = 65 /\ arg.pushup = 65 /\ arg.lunge = 65
    /\ ret.type = "squat"

\* C5: every total is the sum of the points of the table rules whose
\* (strict) condition holds, so none exceeds 100; hip_movement 0.35,
\* knee_movement 0.45, elbow_movement 0 without asymmetric leg movement
\* gives squat 100 and the classification squat.
C5_Totals ==
    Returned("classify") =>
        LET hip == arg.m.hip.num
            knee == arg.m.knee.num
            shoulder == arg.m.shoulder.num
            elbow == arg.m.elbow.num
            Points(cond, pts) == IF cond THEN pts ELSE 0
        IN  /\ ret.squat = Points(hip > 20 /\ knee > 25, 40) + Points(hip > 30, 30)
                           + Points(knee > 40, 30)
            /\ ret.pushup = Points(elbow > 30 /\ shoulder > 15, 40)
                            + Points(arg.m.horizontal, 35) + Points(elbow > 40, 25)
            /\ ret.lunge = Points(arg.m.asym, 60) + Points(hip > 25 /\ knee > 30, 40)
            /\ ret.squat <= 100 /\ ret.pushup <= 100 /\ ret.lunge <= 100
            /\ (hip = 35 /\ knee = 45 /\ elbow = 0 /\ ~arg.m.asym) =>
                  ret.squat = 100 /\ ret.type = "squat"

C5_Witness ==
    /\ Returned("classify")
    /\ arg.m.hip.num = 35 /\ arg.m.knee.num = 45 /\ arg.m.elbow.num = 0
    /\ ~arg.m.asym /\ arg.m.horizontal
    /\ ret.squat = 100 /\ ret.pushup = 35 /\ ret.lunge = 40 /\ ret.type = "squat"

\* C13: for every combination of movement metrics the classifier answers
\* lunge only if asymmetric leg movement holds (without it the lunge total
\* neither exceeds the squat total nor reaches 50), and whenever
\* hip_movement > 0.3 and knee_movement > 0.4 the answer is squat whatever
\* the push-up and lunge signals are.
C13_LungeNeedsAsymmetry ==
    Returned("classify") =>
        /\ ret.type = "lunge" => arg.m.asym
        /\ ~arg.m.asym => ret.lunge <= ret.squat /\ ret.lunge < 50
        /\ (arg.m.hip.num > 30 /\ arg.m.knee.num > 40) => ret.type = "squat"

\* without asymmetry the lunge rule fires and ties with squat at 40, while
\* the push-up total decides
C13_Witness ==
    /\ Returned("classify")
    /\ ~arg.m.asym
    /\ arg.m.hip.num = 26 /\ arg.m.knee.num = 31
    /\ ret.lunge = 40 /\ ret.squat = 40
    /\ ret.pushup = 100 /\ ret.type = "push_up"

(***************************************************************************)
(* The form analyzer applied on its own to sequences of MaxFormFrames      *)
(* well-formed frames: k frames of one pose followed by frames of another. *)
(***************************************************************************)
FormSeq(a, b, k, len) ==
    [j \in 1..len |-> PoseFrame(IF j <= k THEN a ELSE b, FullLandmarks)]

FormInputs ==
    { FormSeq(a, b, k, len) : <<a, b, k, len>> \in
        Poses \X Poses \X (0..MaxFormFrames) \X {MaxFormFrames} }

InitForm ==
    /\ pc = "call"
    /\ Idle
    /\ arg \in [fn : {"form"}, type : {"squat", "push_up", "lunge", "unknown"},
                seq : FormInputs]
    /\ ret = NoCall

CallAnalyzeForm ==
    /\ pc = "call" /\ arg.fn = "form"
    /\ ret' = [fn |-> "form", raw |-> FormBeforeClamp(arg.seq, arg.type).score]
               @@ analyze_form(arg.seq, arg.type)
    /\ pc' = "returned"
    /\ UNCHANGED <<video, locals, result, ran, arg>>

NextForm == CallAnalyzeForm

SpecForm == InitForm /\ [][NextForm]_vars

\* the rule table: per rule the frames in which its condition holds (the
\* frames showing one of the poses whose geometry satisfies it), the
\* fraction threshold num/den, the penalty in hundredths and the message
Rule(frames, num, den, penalty, msg) ==
    [frames |-> frames, num |-> num, den |-> den, penalty |-> penalty, msg |-> msg]
FramesWhere(seq, poses) == Cardinality({k \in 1..Len(seq) : seq[k].pose \in poses})
RuleTable(type, seq) ==
    LET n(poses) == FramesWhere(seq, poses)
    IN  CASE type = "squat" ->
              << Rule(n({"SquatCave", "SquatCaveLean"}), 15, 100, 250,
                      "Keep your knees aligned with your toes - avoid knee cave"),
                 Rule(n({"SquatFwd", "SquatFwdLean"}), 20, 100, 150,
                      "Keep your knees behind your toes"),
                 Rule(n({"SquatLean", "SquatCaveLean", "SquatFwdLean"}), 25, 100, 200,
                      "Keep your chest up and back straight"),
                 Rule(n({"Stand", "SquatCave", "PlankUp", "PlankPike", "LungeDown",
                         "SquatCaveLean", "SquatFwdLean", "PlankPikeHead"}),
                      30, 100, 150, "Go deeper - hips should go below knee level") >>
          [] type = "push_up" ->
              << Rule(n({"PlankSag", "PlankSagHead"}), 20, 100, 250,
                      "Keep your core tight - avoid hip sag"),
                 Rule(n({"PlankPike", "PlankPikeHead"}), 20, 100, 200,
                      "Keep your body straight - avoid piking your hips"),
                 Rule(n(Poses \ {"PlankDown", "PlankPike", "PlankHead", "PlankPikeHead"}),
                      30, 100, 200, "Go lower - chest should nearly touch the ground"),
                 Rule(n({"PlankHead", "PlankSagHead", "PlankPikeHead"}), 25, 100, 100,
                      "Keep your head in neutral position") >>
          [] type = "lunge" ->
              << Rule(n({"SquatFwd", "SquatFwdLean"}), 20, 100, 200,
                      "Keep your front knee behind your toes"),
                 Rule(n({"SquatLean", "PlankUp", "PlankDown", "PlankSag", "PlankPike",
                         "PlankHead", "SquatCaveLean", "SquatFwdLean", "PlankSagHead",
                         "PlankPikeHead"}), 25, 100, 150, "Keep your torso upright"),
                 Rule(n({"Squat", "SquatLean", "SquatFwd", "PlankDown", "PlankSag",
                         "PlankHead", "SquatFwdLean", "PlankSagHead"}),
                      30, 100, 150, "Go deeper in your lunge") >>
Affirmation(type) ==
    CASE type = "squat"   -> "Excellent squat form! Keep it up!"
      [] type = "push_up" -> "Perfect push-up form! Well done!"
      [] type = "lunge"   -> "Great lunge form!"
Fires(rule, total) == rule.frames * rule.den > rule.num * total
RECURSIVE SumPenalties(_)
SumPenalties(rules) ==
    IF rules = <<>> THEN 0 ELSE Head(rules).penalty + SumPenalties(Tail(rules))
Messages(rules) == [k \in 1..Len(rules) |-> rules[k].msg]

\* C6: for squat, push_up and lunge a rule fires exactly when its frame
\* count divided by the number of frames strictly exceeds its threshold;
\* the score is 10.0 minus the penalties of the fired rules, clamped to
\* [0,10]; the feedback is the messages of the fired rules in table order,
\* or the single affirmation of the exercise when no rule fired.
C6_FormRules ==
    (Returned("form") /\ arg.type # "unknown") =>
        LET total == Len(arg.seq)
            fired == SelectSeq(RuleTable(arg.type, arg.seq), LAMBDA r : Fires(r, total))
        IN  /\ ret.score = Max2(0, Min2(1000, 1000 - SumPenalties(fired)))
            /\ ret.feedback = IF fired = <<>> THEN <<Affirmation(arg.type)>>
                              ELSE Messages(fired)

\* a lunge with the torso rule exactly at its threshold (5 of 20 frames), so
\* that it does not fire, and the depth rule above its own
C6_Witness ==
    /\ Returned("form") /\ arg.type = "lunge"
    /\ Len(arg.seq) = 20
    /\ FramesWhere(arg.seq, {"PlankUp"}) = 5
    /\ FramesWhere(arg.seq, {"Squat"}) = 15
    /\ ret.feedback = <<"Go deeper in your lunge">>
    /\ ret.score = 850

\* C14: the form score before clamping already lies in [0,10], so the clamp
\* changes nothing; for squat and push_up the score is never below 2.5,
\* for lunge never below 5.0; it is 10.0 exactly when the feedback is the
\* single affirmation of the exercise, and the affirmation never comes
\* together with a corrective string.
C14_ScoreRange ==
    Returned("form") =>
        /\ ret.raw >= 0 /\ ret.raw <= 1000
        /\ ret.score = ret.raw
        /\ arg.type \in {"squat", "push_up"} => ret.score >= 250
        /\ arg.type = "lunge" => ret.score >= 500
        /\ arg.type # "unknown" =>
              /\ ret.score = 1000 <=> ret.feedback = <<Affirmation(arg.type)>>
              /\ (\E k \in 1..Len(ret.feedback) : ret.feedback[k] = Affirmation(arg.type))
                    => Len(ret.feedback) = 1

\* a squat in which all four rules fire reaches the lowest score, 2.5
C14_Witness ==
    /\ Returned("form") /\ arg.type = "squat"
    /\ Len(ret.feedback) = 4
    /\ ret.raw = 250 /\ ret.score = 250

(***************************************************************************)
(* The repetition counter applied on its own to sequences of well-formed   *)
(* frames alternating between two poses in runs of equal length.           *)
(***************************************************************************)
RepMotions ==
    {<<"Stand", "Squat">>, <<"Squat", "Stand">>, <<"Stand", "SquatFwd">>,
     <<"PlankUp", "PlankDown">>, <<"PlankDown", "PlankUp">>,
     <<"Stand", "LungeDown">>, <<"LungeDown", "Stand">>}

RepSeq(motion, run, len) ==
    [j \in 1..len |-> MotionFrame(motion, run, FullLandmarks, j)]

RepInputs ==
    { RepSeq(t[1], t[2], t[3]) :
        t \in RepMotions \X (MinRepRun..MaxRun) \X (0..MaxRepFrames) }

InitReps ==
    /\ pc = "call"
    /\ Idle
    /\ arg \in [fn : {"reps"}, type : {"squat", "push_up", "lunge", "unknown"},
                seq : RepInputs]
    /\ ret = NoCall

CallCountRepetitions ==
    /\ pc = "call" /\ arg.fn = "reps"
    /\ ret' = [fn |-> "reps", count |-> count_repetitions(arg.seq, arg.type)]
    /\ pc' = "returned"
    /\ UNCHANGED <<video, locals, result, ran, arg>>

NextReps == CallCountRepetitions

SpecReps == InitReps /\ [][NextReps]_vars

\* the smoothed canonical angle signal of an exercise, in degrees times unit
Canonical(type, seq) ==
    CASE type = "squat" ->
            LET sm == smooth_data(KneeSignal(seq), 7)
            IN  [vals |-> sm.vals, unit |-> 2 * sm.scale]
      [] type = "push_up" ->
            LET sm == smooth_data(AvgElbowSignal(seq), 7)
            IN  [vals |-> sm.vals, unit |-> 2 * sm.scale]
      [] type = "lunge" ->
            LET sm == smooth_data(ActiveLeg(seq), 5)
            IN  [vals |-> sm.vals, unit |-> sm.scale]
PeakThreshold(type)   == CASE type = "lunge" -> 140 [] OTHER -> 160
ValleyThreshold(type) == CASE type = "squat" -> 90 [] type = "push_up" -> 70
                           [] type = "lunge" -> 100
Spacing(type)         == CASE type = "push_up" -> 8 [] OTHER -> 10

\* sample p lies on a flat stretch of xs whose two neighbours are lower
IsLocalMax(xs, p) ==
    \E i \in 2..p : \E j \in p..(Len(xs) - 1) :
        /\ \A k \in i..j : xs[k] = xs[p]
        /\ xs[i - 1] < xs[p]
        /\ xs[j + 1] < xs[p]
\* kept is a set of counted extrema of xs: local maxima at or above the
\* height, pairwise at least the spacing apart, and every other local
\* maximum at or above the height is closer than the spacing to a counted
\* one that is at least as high
CountedMaxima(kept, xs, height, spacing) ==
    /\ \A p \in kept : IsLocalMax(xs, p) /\ xs[p] >= height
    /\ \A p \in kept : \A q \in kept : p # q => Abs(p - q) >= spacing
    /\ \A q \in LocalMaxima(xs) :
          (xs[q] >= height /\ q \notin kept) =>
              \E p \in kept : Abs(p - q) < spacing /\ xs[p] >= xs[q]

\* C7: for squat, push_up and lunge with at least 10 frames the count is
\* min(peaks, valleys) of the smoothed canonical angle signal, the peaks
\* being local maxima >= 160/160/140 and the valleys local minima
\* <= 90/70/100, counted extrema of one kind at least 10/8/10 samples
\* apart; below 10 frames and for unknown the count is 0.
C7_RepCount ==
    Returned("reps") =>
        IF arg.type = "unknown" \/ Len(arg.seq) < 10 THEN ret.count = 0
        ELSE LET sig == Canonical(arg.type, arg.seq)
                 tops == {p \in 1..Len(sig.vals) : IsLocalMax(sig.vals, p)}
                 bottoms == {p \in 1..Len(sig.vals) : IsLocalMax(Negated(sig.vals), p)}
             IN  \E peaks \in SUBSET tops :
                    /\ CountedMaxima(peaks, sig.vals,
                                     PeakThreshold(arg.type) * sig.unit,
                                     Spacing(arg.type))
                    /\ \E valleys \in SUBSET bottoms :
                          /\ CountedMaxima(valleys, Negated(sig.vals),
                                           -(ValleyThreshold(arg.type) * sig.unit),
                                           Spacing(arg.type))
                          /\ ret.count = Min2(Cardinality(peaks), Cardinality(valleys))

\* two full squats counted
C7_Witness ==
    /\ Returned("reps") /\ arg.type = "squat"
    /\ Len(arg.seq) >= 10
    /\ ret.count = 2

(***************************************************************************)
(* calculate_angle applied on its own: the vertex b on a small grid and    *)
(* the two other points one grid step or none away from it, which gives    *)
(* every multiple of 45 degrees and every zero-length ray.                 *)
(***************************************************************************)
Steps == {<<dx, dy>> : dx \in {-1, 0, 1}, dy \in {-1, 0, 1}}
Moved(p, d) == <<p[1] + d[1], p[2] + d[2]>>
AngleInputs ==
    { [fn |-> "angle", a |-> Moved(b, da), b |-> b, c |-> Moved(b, dc)] :
        b \in (0..MaxCoord) \X (0..MaxCoord), da \in Steps, dc \in Steps }

InitAngle ==
    /\ pc = "call"
    /\ Idle
    /\ arg \in AngleInputs
    /\ ret = NoCall

CallCalculateAngle ==
    /\ pc = "call" /\ arg.fn = "angle"
    /\ ret' = [fn |-> "angle", value |-> calculate_angle(arg.a, arg.b, arg.c)]
    /\ pc' = "returned"
    /\ UNCHANGED <<video, locals, result, ran, arg>>

NextAngle == CallCalculateAngle

SpecAngle == InitAngle /\ [][NextAngle]_vars

\* v is the non-finite value (it is of another type than the degrees)
IsNaN(v) == ToString(v) = ToString(NaN)

\* C12: for every point triple with a = b or b = c (a zero-length ray at
\* the vertex) calculate_angle returns exactly 0.0, no fault and no
\* non-finite value.
C12_FailsClosed ==
    (Returned("angle") /\ (arg.a = arg.b \/ arg.b = arg.c)) =>
        ~IsNaN(ret.value) /\ ret.value = 0
====
